---- MODULE Spec2Model ----
(***************************************************************************)
(* Model of UEJSONReader.py: the curve pipeline (classifier, virtual      *)
(* attack generator, series post-processing) and the JSONPlotterUI        *)
(* handlers that drive it.                                                 *)
(*                                                                         *)
(* Representation choices:                                                 *)
(*  - Python text is a sequence of one-character strings, so that         *)
(*    startswith, split, replace, lower, re.sub and "in" are computed.    *)
(*    Chars decodes the string literals the model uses.                    *)
(*  - A JSON number is an exact rational n/d (d > 0, lowest terms).       *)
(*  - A JSON value is a record of one uniform shape, tagged by t.         *)
(*    An object keeps its members in file order, as a Python dict does.   *)
(*  - A call yields [e, v]: e = "" and the value v, or the name of the    *)
(*    exception raised in e.                                               *)
(***************************************************************************)
EXTENDS Integers, Sequences, FiniteSets, TLC

VARIABLES
    fs,                 \* the JSONs folder: creature -> its files on disk
    folder_var,         \* self.folder_var (text of the creature dropdown)
    json_files_paths,   \* self.json_files_paths: sequence of <<display name, path>>
    virtual_files_data, \* self.virtual_files_data: sequence of <<display name, entry>>
    json_menu,          \* labels of self.json_menu
    json_file_var,      \* self.json_file_var
    plot_button,        \* self.plot_button: [state, command]
    shown,              \* arguments of the last plot_data / show_balance_table call
    exc,                \* exception that escaped the last handler ("" if none)
    arg,                \* the value a function was applied to on its own
    out,                \* what it returned or raised
    pc                  \* "off", then "classified", "normalized" or "ui"

vars == <<fs, folder_var, json_files_paths, virtual_files_data, json_menu,
          json_file_var, plot_button, shown, exc, arg, out, pc>>

uiVars == <<fs, folder_var, json_files_paths, virtual_files_data, json_menu,
            json_file_var, plot_button, shown, exc>>

-----------------------------------------------------------------------------
(* Text *)

Chars(s) ==
    CASE s = "" -> <<>>
      [] s = "x" -> <<"x">>
      [] s = "FloatCurves" -> <<"F", "l", "o", "a", "t", "C", "u", "r", "v", "e", "s">>
      [] s = "Properties" -> <<"P", "r", "o", "p", "e", "r", "t", "i", "e", "s">>
      [] s = "FloatCurve" -> <<"F", "l", "o", "a", "t", "C", "u", "r", "v", "e">>
      [] s = "Keys" -> <<"K", "e", "y", "s">>
      [] s = "Time" -> <<"T", "i", "m", "e">>
      [] s = "Value" -> <<"V", "a", "l", "u", "e">>
      [] s = "Rows" -> <<"R", "o", "w", "s">>
      [] s = "AttributePercentageValues" -> <<"A", "t", "t", "r", "i", "b", "u", "t", "e", "P", "e", "r", "c", "e", "n", "t", "a", "g", "e", "V", "a", "l", "u", "e", "s">>
      [] s = "Rex" -> <<"R", "e", "x">>
      [] s = "Utah" -> <<"U", "t", "a", "h">>
      [] s = "Damage." -> <<"D", "a", "m", "a", "g", "e", ".">>
      [] s = "." -> <<".">>
      [] s = "/" -> <<"/">>
      [] s = ".json" -> <<".", "j", "s", "o", "n">>
      [] s = "ATT_" -> <<"A", "T", "T", "_">>
      [] s = "DT_" -> <<"D", "T", "_">>
      [] s = "_" -> <<"_">>
      [] s = "BalanceAttributes.json" -> <<"B", "a", "l", "a", "n", "c", "e", "A", "t", "t", "r", "i", "b", "u", "t", "e", "s", ".", "j", "s", "o", "n">>
      [] s = "AttackPower.json" -> <<"A", "t", "t", "a", "c", "k", "P", "o", "w", "e", "r", ".", "j", "s", "o", "n">>
      [] s = "Attributes" -> <<"A", "t", "t", "r", "i", "b", "u", "t", "e", "s">>
      [] s = " Attack" -> <<" ", "A", "t", "t", "a", "c", "k">>
      [] s = "Balance Attributes" -> <<"B", "a", "l", "a", "n", "c", "e", " ", "A", "t", "t", "r", "i", "b", "u", "t", "e", "s">>
      [] s = "No files found" -> <<"N", "o", " ", "f", "i", "l", "e", "s", " ", "f", "o", "u", "n", "d">>
      [] s = "No Dinosaurs found" -> <<"N", "o", " ", "D", "i", "n", "o", "s", "a", "u", "r", "s", " ", "f", "o", "u", "n", "d">>
      [] s = "weight" -> <<"w", "e", "i", "g", "h", "t">>
      [] s = "scale" -> <<"s", "c", "a", "l", "e">>
      [] s = "speed" -> <<"s", "p", "e", "e", "d">>
      [] s = "Damage" -> <<"D", "a", "m", "a", "g", "e">>
      [] s = "Value (km/h)" -> <<"V", "a", "l", "u", "e", " ", "(", "k", "m", "/", "h", ")">>
      [] s = "Value (kg)" -> <<"V", "a", "l", "u", "e", " ", "(", "k", "g", ")">>
      [] s = "Weight" -> <<"W", "e", "i", "g", "h", "t">>
      [] s = "Scale" -> <<"S", "c", "a", "l", "e">>
      [] s = "Max Speed" -> <<"M", "a", "x", " ", "S", "p", "e", "e", "d">>
      [] s = "Weight Speed" -> <<"W", "e", "i", "g", "h", "t", " ", "S", "p", "e", "e", "d">>
      [] s = "Armor" -> <<"A", "r", "m", "o", "r">>
      [] s = "Stamina" -> <<"S", "t", "a", "m", "i", "n", "a">>
      [] s = "Attack Power" -> <<"A", "t", "t", "a", "c", "k", " ", "P", "o", "w", "e", "r">>
      [] s = "Bite Attack" -> <<"B", "i", "t", "e", " ", "A", "t", "t", "a", "c", "k">>
      [] s = "Tail Slam Attack" -> <<"T", "a", "i", "l", " ", "S", "l", "a", "m", " ", "A", "t", "t", "a", "c", "k">>
      [] s = "Alt. Bite Attack" -> <<"A", "l", "t", ".", " ", "B", "i", "t", "e", " ", "A", "t", "t", "a", "c", "k">>
      [] s = "Damage.Bite" -> <<"D", "a", "m", "a", "g", "e", ".", "B", "i", "t", "e">>
      [] s = "Damage.TailSlam" -> <<"D", "a", "m", "a", "g", "e", ".", "T", "a", "i", "l", "S", "l", "a", "m">>
      [] s = "Damage.Alt.Bite" -> <<"D", "a", "m", "a", "g", "e", ".", "A", "l", "t", ".", "B", "i", "t", "e">>
      [] s = "Other.X" -> <<"O", "t", "h", "e", "r", ".", "X">>
      [] s = "ATT_Rex_AttackPower.json" -> <<"A", "T", "T", "_", "R", "e", "x", "_", "A", "t", "t", "a", "c", "k", "P", "o", "w", "e", "r", ".", "j", "s", "o", "n">>
      [] s = "ATT_Rex_Weight.json" -> <<"A", "T", "T", "_", "R", "e", "x", "_", "W", "e", "i", "g", "h", "t", ".", "j", "s", "o", "n">>
      [] s = "ATT_Rex_MaxSpeed.json" -> <<"A", "T", "T", "_", "R", "e", "x", "_", "M", "a", "x", "S", "p", "e", "e", "d", ".", "j", "s", "o", "n">>
      [] s = "ATT_Rex_Scale.json" -> <<"A", "T", "T", "_", "R", "e", "x", "_", "S", "c", "a", "l", "e", ".", "j", "s", "o", "n">>
      [] s = "ATT_Rex_WeightSpeed.json" -> <<"A", "T", "T", "_", "R", "e", "x", "_", "W", "e", "i", "g", "h", "t", "S", "p", "e", "e", "d", ".", "j", "s", "o", "n">>
      [] s = "ATT_Rex_Armor.json" -> <<"A", "T", "T", "_", "R", "e", "x", "_", "A", "r", "m", "o", "r", ".", "j", "s", "o", "n">>
      [] s = "ATT_Utah_AttackPower.json" -> <<"A", "T", "T", "_", "U", "t", "a", "h", "_", "A", "t", "t", "a", "c", "k", "P", "o", "w", "e", "r", ".", "j", "s", "o", "n">>
      [] s = "ATT_Utah_Weight.json" -> <<"A", "T", "T", "_", "U", "t", "a", "h", "_", "W", "e", "i", "g", "h", "t", ".", "j", "s", "o", "n">>
      [] s = "ATT_Utah_Stamina.json" -> <<"A", "T", "T", "_", "U", "t", "a", "h", "_", "S", "t", "a", "m", "i", "n", "a", ".", "j", "s", "o", "n">>

Upper == {"A", "B", "C", "D", "E", "F", "G", "H", "I", "J", "K", "L", "M",
          "N", "O", "P", "Q", "R", "S", "T", "U", "V", "W", "X", "Y", "Z"}

LowerOf(c) ==
    CASE c = "A" -> "a" [] c = "B" -> "b" [] c = "C" -> "c" [] c = "D" -> "d"
      [] c = "E" -> "e" [] c = "F" -> "f" [] c = "G" -> "g" [] c = "H" -> "h"
      [] c = "I" -> "i" [] c = "J" -> "j" [] c = "K" -> "k" [] c = "L" -> "l"
      [] c = "M" -> "m" [] c = "N" -> "n" [] c = "O" -> "o" [] c = "P" -> "p"
      [] c = "Q" -> "q" [] c = "R" -> "r" [] c = "S" -> "s" [] c = "T" -> "t"
      [] c = "U" -> "u" [] c = "V" -> "v" [] c = "W" -> "w" [] c = "X" -> "x"
      [] c = "Y" -> "y" [] c = "Z" -> "z" [] OTHER -> c

\* str.lower()
Lower(s) == [i \in 1..Len(s) |-> LowerOf(s[i])]

\* s.startswith(p)
StartsWith(s, p) == Len(s) >= Len(p) /\ SubSeq(s, 1, Len(p)) = p

\* p occurs in s at position i
OccursAt(s, p, i) == i + Len(p) - 1 <= Len(s) /\ SubSeq(s, i, i + Len(p) - 1) = p

\* p in s (text containment)
Contains(s, p) == \E i \in 1..(Len(s) + 1) : OccursAt(s, p, i)

\* s.replace(p, ""), p not empty: occurrences removed left to right
RECURSIVE RemoveFrom(_, _, _)
RemoveFrom(s, p, i) ==
    IF i > Len(s) THEN <<>>
    ELSE IF OccursAt(s, p, i) THEN RemoveFrom(s, p, i + Len(p))
    ELSE <<s[i]>> \o RemoveFrom(s, p, i + 1)

Remove(s, p) == RemoveFrom(s, p, 1)

\* s.strip(), the only whitespace of the model being the space
RECURSIVE LStrip(_)
LStrip(s) == IF s # <<>> /\ Head(s) = " " THEN LStrip(Tail(s)) ELSE s

RECURSIVE RStrip(_)
RStrip(s) == IF s # <<>> /\ s[Len(s)] = " " THEN RStrip(SubSeq(s, 1, Len(s) - 1)) ELSE s

Strip(s) == RStrip(LStrip(s))

\* re.sub(r'([A-Z])', r' \1', s)
RECURSIVE SpaceUpper(_)
SpaceUpper(s) ==
    IF s = <<>> THEN <<>>
    ELSE (IF Head(s) \in Upper THEN <<" ", Head(s)>> ELSE <<Head(s)>>) \o SpaceUpper(Tail(s))

\* s.split(sep)[-1], sep one character
RECURSIVE LastPart(_, _)
LastPart(s, sep) ==
    IF \E i \in 1..Len(s) : s[i] = sep
    THEN LastPart(Tail(s), sep)
    ELSE s

\* os.path.basename
basename(path) == LastPart(path, "/")

-----------------------------------------------------------------------------
(* Numbers *)

Abs(x) == IF x < 0 THEN -x ELSE x

RECURSIVE Gcd(_, _)
Gcd(x, y) == IF y = 0 THEN x ELSE Gcd(y, x % y)

\* JSON values
Null == [t |-> "null", n |-> 0, d |-> 1, s |-> "", a |-> <<>>, o |-> <<>>]

Rat(n, d) ==
    LET g == Gcd(Abs(n), Abs(d))
        sg == IF d < 0 THEN -1 ELSE 1
    IN  [t |-> "num", n |-> (sg * n) \div g, d |-> (sg * d) \div g, s |-> "", a |-> <<>>, o |-> <<>>]

Num(n) == Rat(n, 1)
Str(s) == [t |-> "str", n |-> 0, d |-> 1, s |-> s, a |-> <<>>, o |-> <<>>]
Arr(a) == [t |-> "list", n |-> 0, d |-> 1, s |-> "", a |-> a, o |-> <<>>]
Obj(o) == [t |-> "obj", n |-> 0, d |-> 1, s |-> "", a |-> <<>>, o |-> o]

IsNum(x) == x.t = "num"

RSub(x, y) == Rat(x.n * y.d - y.n * x.d, x.d * y.d)
RMul(x, y) == Rat(x.n * y.n, x.d * y.d)
RDiv(x, y) == Rat(x.n * y.d, x.d * y.n)
RLess(x, y) == x.n * y.d < y.n * x.d
RAbs(x) == Rat(Abs(x.n), x.d)

-----------------------------------------------------------------------------
(* Python operations on loaded JSON *)

Ret(v) == [e |-> "", v |-> v]
Raise(x) == [e |-> x, v |-> Null]

\* bool(x)
Truthy(x) ==
    CASE x.t = "null" -> FALSE
      [] x.t = "num" -> x.n # 0
      [] x.t = "str" -> x.s # ""
      [] x.t = "list" -> x.a # <<>>
      [] x.t = "obj" -> x.o # <<>>

HasKey(x, k) == \E i \in 1..Len(x.o) : x.o[i][1] = k

Member(x, k) == x.o[CHOOSE i \in 1..Len(x.o) : x.o[i][1] = k][2]

\* x[0]
Index0(x) ==
    CASE x.t = "list" -> IF x.a = <<>> THEN Raise("IndexError") ELSE Ret(x.a[1])
      [] x.t = "str" -> IF x.s = "" THEN Raise("IndexError") ELSE Ret(Str(Chars(x.s)[1]))
      [] x.t = "obj" -> Raise("KeyError")
      [] OTHER -> Raise("TypeError")

\* x[k], k a text key
GetItem(x, k) ==
    CASE x.t = "obj" -> IF HasKey(x, k) THEN Ret(Member(x, k)) ELSE Raise("KeyError")
      [] OTHER -> Raise("TypeError")

\* x.get(k, dflt)
DictGet(x, k, dflt) ==
    CASE x.t = "obj" -> IF HasKey(x, k) THEN Ret(Member(x, k)) ELSE Ret(dflt)
      [] OTHER -> Raise("AttributeError")

\* k in x
KeyIn(k, x) ==
    CASE x.t = "obj" -> Ret(HasKey(x, k))
      [] x.t = "list" -> Ret(\E i \in 1..Len(x.a) : x.a[i] = Str(k))
      [] x.t = "str" -> Ret(Contains(Chars(x.s), Chars(k)))
      [] OTHER -> Raise("TypeError")

\* the items a for loop over x visits
Iter(x) ==
    CASE x.t = "list" -> Ret(x.a)
      [] x.t = "obj" -> Ret([i \in 1..Len(x.o) |-> Str(x.o[i][1])])
      [] x.t = "str" -> Ret([i \in 1..Len(Chars(x.s)) |-> Str(Chars(x.s)[i])])
      [] OTHER -> Raise("TypeError")

\* x - y
PySub(x, y) == IF IsNum(x) /\ IsNum(y) THEN Ret(RSub(x, y)) ELSE Raise("TypeError")

\* sequencing: the exception of r, or F applied to its value
Then(r, F(_)) == IF r.e # "" THEN r ELSE F(r.v)

\* as Then, but an exception is paired with the value kept so far
ThenKeep(r, kept, F(_)) == IF r.e # "" THEN [e |-> r.e, v |-> kept] ELSE F(r.v)

\* except <kinds>: handler
Except(r, kinds, handler) == IF r.e \in kinds THEN handler ELSE r

\* [key[f] for key in keys]
RECURSIVE Column(_, _)
Column(keys, f) ==
    IF keys = <<>> THEN Ret(<<>>)
    ELSE Then(GetItem(Head(keys), f), LAMBDA x :
         Then(Column(Tail(keys), f), LAMBDA rest : Ret(<<x>> \o rest)))

-----------------------------------------------------------------------------
(* Files *)

Missing == [st |-> "missing", j |-> Null]
Invalid == [st |-> "invalid", j |-> Null]
Json(j) == [st |-> "json", j |-> j]

\* os.path.join
Join(a, b) == a \o <<"/">> \o b

\* <root>/<creature>/DT_<creature>BalanceAttributes.json
BalancePath(dino) == Join(dino, Chars("DT_") \o dino \o Chars("BalanceAttributes.json"))

\* <root>/<creature>/Attributes
AttributesPath(dino) == Join(dino, Chars("Attributes"))

\* the places of the disk where a file is stored at the path
BalanceAt(disk, path) == {c \in DOMAIN disk : path = BalancePath(Chars(c))}

AttAt(disk, path) ==
    {ci \in UNION {{<<c, i>> : i \in 1..Len(disk[c].att)} : c \in DOMAIN disk} :
        /\ disk[ci[1]].attributes
        /\ path = Join(AttributesPath(Chars(ci[1])), Chars(disk[ci[1]].att[ci[2]].name))}

PickFile(disk, balanceAt, attAt) ==
    IF balanceAt # {} THEN disk[CHOOSE c \in balanceAt : TRUE].balance
    ELSE IF attAt # {}
    THEN disk[(CHOOSE ci \in attAt : TRUE)[1]].att[(CHOOSE ci \in attAt : TRUE)[2]].file
    ELSE Missing

\* the file stored at a path of the disk
FileAt(disk, path) == PickFile(disk, BalanceAt(disk, path), AttAt(disk, path))

LoadOf(f) == IF f.st = "json" THEN f.j ELSE Null

\* json.load result, None when the file is absent or not JSON
get_json_data(disk, file_path) == LoadOf(FileAt(disk, file_path))

-----------------------------------------------------------------------------
(* Linearity classifier *)

\* data[0].get("FloatCurves") or [data[0].get("Properties", {}).get("FloatCurve")]
get_or_float_curves(rec) ==
    Then(DictGet(rec, "FloatCurves", Null), LAMBDA fc :
        IF Truthy(fc) THEN Ret(fc)
        ELSE Then(DictGet(rec, "Properties", Obj(<<>>)), LAMBDA props :
             Then(DictGet(props, "FloatCurve", Null), LAMBDA c : Ret(Arr(<<c>>)))))

\* a slope: +infinity or the exact quotient
Inf == [inf |-> TRUE, q |-> Null]
Fin(q) == [inf |-> FALSE, q |-> q]

\* 1e-9 as 1/TolDenom
TolDenom == 1000000000

\* x > 1e-9 for a rational x >= 0
ExceedsTolerance(x) == x.n > x.d \div TolDenom

\* a comparison in which two infinite slopes count as different
slope_differs_nan_true(cur, first) ==
    IF cur.inf \/ first.inf THEN TRUE
    ELSE ExceedsTolerance(RAbs(RSub(cur.q, first.q)))

\* abs(current_slope - first_slope) > 1e-9; inf - inf is nan and nan > x is False
slope_differs(cur, first) ==
    IF cur.inf /\ first.inf THEN FALSE
    ELSE IF cur.inf \/ first.inf THEN TRUE
    ELSE ExceedsTolerance(RAbs(RSub(cur.q, first.q)))

\* slope of the segment ending at keyframe i (keyframes are numbered from 1 here)
slope_at(time_points, values, i) ==
    Then(PySub(time_points[i], time_points[i - 1]), LAMBDA time_diff :
        IF time_diff.n = 0 THEN Ret(Inf)
        ELSE Then(PySub(values[i], values[i - 1]), LAMBDA value_diff :
                Ret(Fin(RDiv(value_diff, time_diff)))))

\* the loop of lines 203-213 from keyframe i on
RECURSIVE slope_loop(_, _, _, _)
slope_loop(time_points, values, first_slope, i) ==
    IF i > Len(values) THEN Ret(TRUE)
    ELSE Then(slope_at(time_points, values, i), LAMBDA current_slope :
            IF slope_differs(current_slope, first_slope) THEN Ret(FALSE)
            ELSE slope_loop(time_points, values, first_slope, i + 1))

\* lines 188-215 on the extracted keys
classify_keys(keys) ==
    IF Len(keys) <= 2 THEN Ret(TRUE)
    ELSE Then(Column(keys, "Time"), LAMBDA time_points :
         Then(Column(keys, "Value"), LAMBDA values :
            IF \A i \in 1..Len(values) : values[i] = values[1] THEN Ret(TRUE)
            ELSE Then(slope_at(time_points, values, 2), LAMBDA first_slope :
                    slope_loop(time_points, values, first_slope, 3))))

\* the try block of is_linear_or_flat
classify_try(data) ==
    Then(Index0(data), LAMBDA rec :
    Then(get_or_float_curves(rec), LAMBDA float_curves :
    Then(Index0(float_curves), LAMBDA curve :
    Then(GetItem(curve, "Keys"), LAMBDA keys_value :
    Then(Iter(keys_value), LAMBDA keys : classify_keys(keys))))))

linear_or_flat_of(data) ==
    IF ~Truthy(data) THEN Ret(TRUE)
    ELSE Except(classify_try(data), {"KeyError", "IndexError", "TypeError"}, Ret(TRUE))

is_linear_or_flat(disk, file_path) == linear_or_flat_of(get_json_data(disk, file_path))

-----------------------------------------------------------------------------
(* Curve shape resolution of the generator *)

\* "Properties" in ap_content and "FloatCurve" in ap_content["Properties"]
has_shape_b(rec) ==
    Then(KeyIn("Properties", rec), LAMBDA inP :
        IF ~inP THEN Ret(FALSE)
        ELSE Then(GetItem(rec, "Properties"), LAMBDA props : KeyIn("FloatCurve", props)))

\* [ap_content["Properties"]["FloatCurve"]]
shape_b_curves(rec) ==
    Then(GetItem(rec, "Properties"), LAMBDA props :
    Then(GetItem(props, "FloatCurve"), LAMBDA c : Ret(Arr(<<c>>))))

\* lines 374-379: the curves of the attack-power record
resolve_ap_curves(ap_content) ==
    Then(KeyIn("FloatCurves", ap_content), LAMBDA inA :
        IF inA THEN GetItem(ap_content, "FloatCurves")
        ELSE Then(has_shape_b(ap_content), LAMBDA inB :
                IF inB THEN shape_b_curves(ap_content) ELSE Raise("ValueError")))

-----------------------------------------------------------------------------
(* Ordering of text, for sorted() *)

\* the characters of the model in code-point order
Alphabet ==
    <<" ", "(", ")", ".", "/",
      "A", "B", "C", "D", "E", "F", "G", "H", "I", "J", "K", "L", "M",
      "N", "O", "P", "Q", "R", "S", "T", "U", "V", "W", "X", "Y", "Z", "_",
      "a", "b", "c", "d", "e", "f", "g", "h", "i", "j", "k", "l", "m",
      "n", "o", "p", "q", "r", "s", "t", "u", "v", "w", "x", "y", "z">>

Ord(c) == CHOOSE i \in 1..Len(Alphabet) : Alphabet[i] = c

\* s <= t in Python's str order
RECURSIVE TextLeq(_, _)
TextLeq(s, t) ==
    IF s = <<>> THEN TRUE
    ELSE IF t = <<>> THEN FALSE
    ELSE IF Head(s) = Head(t) THEN TextLeq(Tail(s), Tail(t))
    ELSE Ord(Head(s)) < Ord(Head(t))

RECURSIVE Insert(_, _)
Insert(x, sortedSeq) ==
    IF sortedSeq = <<>> THEN <<x>>
    ELSE IF TextLeq(x, Head(sortedSeq)) THEN <<x>> \o sortedSeq
    ELSE <<Head(sortedSeq)>> \o Insert(x, Tail(sortedSeq))

\* the elements of a finite set in some order (os.listdir)
RECURSIVE SetToSeq(_)
SetToSeq(S) ==
    IF S = {} THEN <<>>
    ELSE LET x == CHOOSE x \in S : TRUE IN <<x>> \o SetToSeq(S \ {x})

\* sorted(names)
RECURSIVE sorted(_)
sorted(names) == IF names = <<>> THEN <<>> ELSE Insert(Head(names), sorted(Tail(names)))

-----------------------------------------------------------------------------
(* Python dicts with text keys, kept as <<key, value>> pairs in insertion order *)

DictHas(dict, k) == \E i \in 1..Len(dict) : dict[i][1] = k

DictAt(dict, k) == dict[CHOOSE i \in 1..Len(dict) : dict[i][1] = k][2]

\* dict[k] = v
DictPut(dict, k, v) ==
    IF DictHas(dict, k)
    THEN [i \in 1..Len(dict) |-> IF dict[i][1] = k THEN <<k, v>> ELSE dict[i]]
    ELSE Append(dict, <<k, v>>)

\* list(dict.keys())
DictKeys(dict) == [i \in 1..Len(dict) |-> dict[i][1]]

-----------------------------------------------------------------------------
(* Display names *)

format_file_name(file_name, dinosaur_name) ==
    LET n1 == Remove(basename(file_name), Chars(".json"))
        n2 == IF StartsWith(n1, Chars("ATT_"))
              THEN Remove(n1, Chars("ATT_") \o dinosaur_name \o Chars("_"))
              ELSE IF StartsWith(n1, Chars("DT_"))
              THEN Remove(n1, Chars("DT_") \o dinosaur_name)
              ELSE n1
    IN  Strip(SpaceUpper(n2))

format_virtual_name(name) == Strip(SpaceUpper(name))

-----------------------------------------------------------------------------
(* Virtual curve generator *)

\* x * y
PyMul(x, y) ==
    CASE IsNum(x) /\ IsNum(y) -> Ret(RMul(x, y))
      [] x.t \in {"null", "obj"} \/ y.t \in {"null", "obj"} -> Raise("TypeError")

\* x >= 0.0 and x <= 1.0, the comparisons the code does not make
PyNonNegative(x) == IF IsNum(x) THEN Ret(x.n >= 0) ELSE Raise("TypeError")
PyAtMostOne(x) == IF IsNum(x) THEN Ret(x.n <= x.d) ELSE Raise("TypeError")

\* x > 0.0 and x < 1.0
PyPositive(x) == IF IsNum(x) THEN Ret(x.n > 0) ELSE Raise("TypeError")
PyBelowOne(x) == IF IsNum(x) THEN Ret(x.n < x.d) ELSE Raise("TypeError")

\* v != 0
PyNonZero(v) == ~(IsNum(v) /\ v.n = 0)

\* x[:2]
Slice2(x) ==
    CASE x.t = "list" -> Ret(SubSeq(x.a, 1, IF Len(x.a) < 2 THEN Len(x.a) ELSE 2))
      [] x.t \in {"null", "num"} -> Raise("TypeError")

AttackPowerPath(dino) ==
    Join(AttributesPath(dino), Chars("ATT_") \o dino \o Chars("_") \o Chars("AttackPower.json"))

\* one item of the dict comprehension of line 384: kept, skipped or raising
damage_item(k, v) ==
    IF ~StartsWith(Chars(k), Chars("Damage.")) THEN Ret(<<>>)
    ELSE Then(GetItem(v, "AttributePercentageValues"), LAMBDA p :
            IF PyNonZero(p) THEN Ret(<<<<k, p>>>>) ELSE Ret(<<>>))

\* the dict comprehension of line 384 over the items of Rows, in file order
RECURSIVE damage_filter(_)
damage_filter(items) ==
    IF items = <<>> THEN Ret(<<>>)
    ELSE Then(damage_item(Head(items)[1], Head(items)[2]), LAMBDA kept :
         Then(damage_filter(Tail(items)), LAMBDA rest : Ret(kept \o rest)))

\* balance_data[0]["Rows"].items()
rows_items(rows) == IF rows.t = "obj" THEN Ret(rows.o) ELSE Raise("AttributeError")

damage_attributes(balance_data) ==
    Then(Index0(balance_data), LAMBDA rec :
    Then(GetItem(rec, "Rows"), LAMBDA rows :
    Then(rows_items(rows), LAMBDA items : damage_filter(items))))

\* lines 398-400 for one keyframe: the (time, value) pair appended, if any
scaled_key(key, damage_value) ==
    Then(GetItem(key, "Time"), LAMBDA t :
    Then(PyPositive(t), LAMBDA positive :
        IF ~positive THEN Ret(<<>>)
        ELSE Then(GetItem(key, "Value"), LAMBDA v :
             Then(PyMul(v, damage_value), LAMBDA scaled : Ret(<<<<t, scaled>>>>)))))

\* lines 397-400: the pairs of one curve, in order
RECURSIVE scaled_keys(_, _)
scaled_keys(keys, damage_value) ==
    IF keys = <<>> THEN Ret(<<>>)
    ELSE Then(scaled_key(Head(keys), damage_value), LAMBDA first :
         Then(scaled_keys(Tail(keys), damage_value), LAMBDA rest : Ret(first \o rest)))

\* {"Time": time_points, "Values": values}
AsSeries(pairs) ==
    [Time |-> [i \in 1..Len(pairs) |-> pairs[i][1]],
     Values |-> [i \in 1..Len(pairs) |-> pairs[i][2]]]

\* lines 395-401 for one curve
virtual_curve(curve, damage_value) ==
    Then(GetItem(curve, "Keys"), LAMBDA keys_value :
    Then(Iter(keys_value), LAMBDA keys :
    Then(scaled_keys(keys, damage_value), LAMBDA pairs : Ret(AsSeries(pairs)))))

\* lines 392-401: one new curve per life stage
RECURSIVE new_curves(_, _)
new_curves(curves, damage_value) ==
    IF curves = <<>> THEN Ret(<<>>)
    ELSE Then(virtual_curve(Head(curves), damage_value), LAMBDA c :
         Then(new_curves(Tail(curves), damage_value), LAMBDA rest : Ret(<<c>> \o rest)))

\* lines 387-389
display_name(attack_name) ==
    format_virtual_name(LastPart(Chars(attack_name), ".")) \o Chars(" Attack")

VirtualEntry(name, curves) ==
    [curves |-> curves, y_label |-> Chars("Damage"), title_name |-> name]

\* lines 387-408 for one damage attribute: the entry stored
new_entry(attack_name, damage_value, ap_curves) ==
    Then(Slice2(ap_curves), LAMBDA first_two :
    Then(new_curves(first_two, damage_value), LAMBDA curves :
        Ret(VirtualEntry(display_name(attack_name), curves))))

\* the loop of lines 386-408; an exception leaves the entries stored so far
RECURSIVE attack_loop(_, _, _)
attack_loop(attrs, ap_curves, vfd) ==
    IF attrs = <<>> THEN Ret(vfd)
    ELSE ThenKeep(new_entry(Head(attrs)[1], Head(attrs)[2], ap_curves), vfd, LAMBDA entry :
            attack_loop(Tail(attrs), ap_curves, DictPut(vfd, entry.title_name, entry)))

\* lines 371-382: the curves, or "return" when the except clause ran
ap_curves_of(attack_power_data) ==
    Except(Then(Index0(attack_power_data), LAMBDA ap_content : resolve_ap_curves(ap_content)),
           {"KeyError", "ValueError", "IndexError"}, Raise("return"))

\* lines 367-408 on the two loaded files
generate_from(balance_data, attack_power_data, vfd) ==
    IF ~Truthy(balance_data) \/ ~Truthy(attack_power_data) THEN Ret(vfd)
    ELSE Except(ThenKeep(ap_curves_of(attack_power_data), vfd, LAMBDA ap_curves :
                ThenKeep(damage_attributes(balance_data), vfd, LAMBDA attrs :
                    attack_loop(attrs, ap_curves, vfd))),
                {"return"}, Ret(vfd))

\* result [e, v]: the exception that escaped and virtual_files_data at the end
generate_virtual_attack_files(disk, dinosaur_name, vfd) ==
    generate_from(get_json_data(disk, BalancePath(dinosaur_name)),
                  get_json_data(disk, AttackPowerPath(dinosaur_name)), vfd)

-----------------------------------------------------------------------------
(* Series post-processing and display *)

\* 0.036
SpeedFactor == Rat(36, 1000)

\* [v * conversion_factor for v in values]
RECURSIVE convert(_, _)
convert(values, factor) ==
    IF values = <<>> THEN Ret(<<>>)
    ELSE Then(PyMul(Head(values), factor), LAMBDA m :
         Then(convert(Tail(values), factor), LAMBDA rest : Ret(<<m>> \o rest)))

\* time_points and time_points[-1] < 1.0
ends_below_one(time_points) ==
    IF time_points = <<>> THEN Ret(FALSE) ELSE PyBelowOne(time_points[Len(time_points)])

\* lines 459-463: the appended keyframe for "weight" and "scale"
extend_boundary(selected_file_name, time_points, values) ==
    IF Lower(selected_file_name) \in {Chars("weight"), Chars("scale")}
    THEN Then(ends_below_one(time_points), LAMBDA below :
            IF below
            THEN Ret([Time |-> Append(time_points, Num(1)),
                      Values |-> Append(values, values[Len(values)])])
            ELSE Ret([Time |-> time_points, Values |-> values]))
    ELSE Ret([Time |-> time_points, Values |-> values])

\* lines 465-471
y_label_of(selected_file_name) ==
    IF Contains(Lower(selected_file_name), Chars("speed")) THEN Chars("Value (km/h)")
    ELSE IF Contains(Lower(selected_file_name), Chars("weight")) THEN Chars("Value (kg)")
    ELSE Chars("Value")

\* the factor if "weight" were tested before "speed"
conversion_factor_weight_first(selected_file_name) ==
    IF Contains(Lower(selected_file_name), Chars("weight")) THEN Num(1)
    ELSE IF Contains(Lower(selected_file_name), Chars("speed")) THEN SpeedFactor
    ELSE Num(1)

conversion_factor_of(selected_file_name) ==
    IF Contains(Lower(selected_file_name), Chars("speed")) THEN SpeedFactor ELSE Num(1)

\* the body of the loop of lines 454-475 for one curve
series_of(curve, selected_file_name) ==
    Then(GetItem(curve, "Keys"), LAMBDA keys_value :
    Then(Iter(keys_value), LAMBDA keys :
    Then(Column(keys, "Time"), LAMBDA time_points :
    Then(Column(keys, "Value"), LAMBDA values :
    Then(extend_boundary(selected_file_name, time_points, values), LAMBDA ext :
    Then(convert(ext.Values, conversion_factor_of(selected_file_name)), LAMBDA converted :
        Ret([Time |-> ext.Time, Values |-> converted])))))))

RECURSIVE series_list(_, _)
series_list(curves, selected_file_name) ==
    IF curves = <<>> THEN Ret(<<>>)
    ELSE Then(series_of(Head(curves), selected_file_name), LAMBDA s1 :
         Then(series_list(Tail(curves), selected_file_name), LAMBDA rest : Ret(<<s1>> \o rest)))

NoPlot == [kind |-> "none", times |-> <<>>, values |-> <<>>, title |-> <<>>,
           y_label |-> <<>>, rows |-> <<>>]

\* plot_data(time_points_list, values_list, file_name, y_label): the figure
\* shown, none for empty lists
plot_data(time_points_list, values_list, file_name, y_label) ==
    IF values_list = <<>> \/ time_points_list = <<>> THEN NoPlot
    ELSE [kind |-> "plot", times |-> time_points_list, values |-> values_list,
          title |-> file_name, y_label |-> y_label, rows |-> <<>>]

plot_series(series, file_name, y_label) ==
    plot_data([i \in 1..Len(series) |-> series[i].Time],
              [i \in 1..Len(series) |-> series[i].Values], file_name, y_label)

\* lines 433-441: a virtual entry
plot_virtual(data) == Ret(plot_series(data.curves, data.title_name, data.y_label))

\* lines 451-477 on the resolved curves
plot_curves(float_curves, selected_file_name) ==
    IF ~Truthy(float_curves) THEN Ret(NoPlot)
    ELSE Then(Index0(float_curves), LAMBDA first :
            IF ~Truthy(first) THEN Ret(NoPlot)
            ELSE Then(Slice2(float_curves), LAMBDA first_two :
                 Then(series_list(first_two, selected_file_name), LAMBDA series :
                    Ret(plot_series(series, selected_file_name,
                                    y_label_of(selected_file_name))))))

\* lines 447-477 on the loaded file
plot_stored(file_data, selected_file_name) ==
    IF ~Truthy(file_data) THEN Ret(NoPlot)
    ELSE Then(Index0(file_data), LAMBDA rec :
         Then(get_or_float_curves(rec), LAMBDA float_curves :
            plot_curves(float_curves, selected_file_name)))

\* result [e, v]: the exception that escaped and what was displayed
plot_selected_file(disk, selected_file_name, jfp, vfd) ==
    IF DictHas(vfd, selected_file_name) THEN plot_virtual(DictAt(vfd, selected_file_name))
    ELSE IF ~DictHas(jfp, selected_file_name) THEN Ret(NoPlot)
    ELSE ThenKeep(plot_stored(get_json_data(disk, DictAt(jfp, selected_file_name)),
                              selected_file_name),
                  NoPlot, LAMBDA p : Ret(p))

\* lines 163-166 for one row: the line added to the table, if any
table_row(key, value_dict) ==
    Then(DictGet(value_dict, "AttributePercentageValues", Null), LAMBDA value :
        IF value = Null THEN Ret(<<>>) ELSE Ret(<<<<key, value>>>>))

RECURSIVE table_rows(_)
table_rows(items) ==
    IF items = <<>> THEN Ret(<<>>)
    ELSE Then(table_row(Head(items)[1], Head(items)[2]), LAMBDA first :
         Then(table_rows(Tail(items)), LAMBDA rest : Ret(first \o rest)))

Table(file_path, rows) ==
    [kind |-> "table", times |-> <<>>, values |-> <<>>, title |-> basename(file_path),
     y_label |-> <<>>, rows |-> rows]

\* table_string = "Error parsing the BalanceAttributes file."
ErrorText == <<<<"Error parsing the BalanceAttributes file.", Null>>>>

\* the try block of show_balance_table
table_try(data) ==
    Then(Index0(data), LAMBDA rec :
    Then(DictGet(rec, "Rows", Obj(<<>>)), LAMBDA rows :
    Then(rows_items(rows), LAMBDA items : table_rows(items))))

table_of(data, file_path) ==
    IF ~Truthy(data) THEN Ret(NoPlot)
    ELSE ThenKeep(Except(table_try(data), {"KeyError", "IndexError"}, Ret(ErrorText)),
                  NoPlot, LAMBDA rows : Ret(Table(file_path, rows)))

\* result [e, v] of show_balance_table
show_balance_table(disk, file_path) == table_of(get_json_data(disk, file_path), file_path)

\* result [e, v] of show_selected_data_table
show_selected_data_table(disk, selected_file_name, jfp) ==
    IF DictHas(jfp, selected_file_name)
    THEN show_balance_table(disk, DictAt(jfp, selected_file_name))
    ELSE Ret(NoPlot)

-----------------------------------------------------------------------------
(* Dropdown handlers *)

\* the button after enable_plot_button ran for a selection
enable_plot_button(selected_file_name, button) ==
    IF selected_file_name # <<>> /\ selected_file_name # Chars("No files found")
    THEN IF Contains(selected_file_name, Chars("Balance Attributes"))
         THEN [state |-> "normal", command |-> "show_selected_data_table"]
         ELSE [state |-> "normal", command |-> "plot_selected_file"]
    ELSE [button EXCEPT !.state = "disabled"]

EndsWith(s, p) == Len(s) >= Len(p) /\ SubSeq(s, Len(s) - Len(p) + 1, Len(s)) = p

\* the creature directory named dino, if any
HasDino(disk, dino) == \E c \in DOMAIN disk : Chars(c) = dino
DinoOf(disk, dino) == disk[CHOOSE c \in DOMAIN disk : Chars(c) = dino]

\* glob.glob(os.path.join(attributes_path, "ATT_*.json")), in directory order
RECURSIVE glob_att(_, _)
glob_att(attributes_path, att) ==
    IF att = <<>> THEN <<>>
    ELSE (IF StartsWith(Chars(Head(att).name), Chars("ATT_"))
             /\ EndsWith(Chars(Head(att).name), Chars(".json"))
          THEN <<Join(attributes_path, Chars(Head(att).name))>> ELSE <<>>)
         \o glob_att(attributes_path, Tail(att))

\* line 333: "FloatCurves" in rec or ("Properties" in rec and "FloatCurve" in rec["Properties"])
has_curve_shape(rec) ==
    Then(KeyIn("FloatCurves", rec), LAMBDA inA : IF inA THEN Ret(TRUE) ELSE has_shape_b(rec))

\* lines 333-335 on the loaded file: whether it is listed
listed_data(file_data, linear) ==
    IF ~Truthy(file_data) THEN Ret(FALSE)
    ELSE Then(Index0(file_data), LAMBDA rec :
         Then(has_curve_shape(rec), LAMBDA shape :
            IF ~shape THEN Ret(FALSE) ELSE Then(linear, LAMBDA lin : Ret(~lin))))

\* lines 332-335 for one file
listed(disk, file_path) ==
    listed_data(get_json_data(disk, file_path), is_linear_or_flat(disk, file_path))

\* lines 331-337 for one file: the map after it, None of KeyError and IndexError escaping
scan_file(disk, file_path, dino, jfp) ==
    Except(Then(listed(disk, file_path), LAMBDA l :
                Ret(IF l THEN DictPut(jfp, format_file_name(file_path, dino), file_path)
                    ELSE jfp)),
           {"KeyError", "IndexError"}, Ret(jfp))

\* the loop of lines 330-337; an uncaught exception leaves the entries stored so far
RECURSIVE scan_files(_, _, _, _)
scan_files(disk, paths, dino, jfp) ==
    IF paths = <<>> THEN Ret(jfp)
    ELSE ThenKeep(scan_file(disk, Head(paths), dino, jfp), jfp, LAMBDA next :
            scan_files(disk, Tail(paths), dino, next))

Maps(jfp, vfd) == [json_files_paths |-> jfp, virtual_files_data |-> vfd]

\* lines 326-327 run on the map of the previous creature, as if line 316 were absent
with_balance_kept(disk, dino) ==
    IF FileAt(disk, BalancePath(dino)).st # "missing"
    THEN DictPut(json_files_paths, format_file_name(BalancePath(dino), dino), BalancePath(dino))
    ELSE json_files_paths

\* lines 326-327
with_balance(disk, dino) ==
    IF FileAt(disk, BalancePath(dino)).st # "missing"
    THEN <<<<format_file_name(BalancePath(dino), dino), BalancePath(dino)>>>>
    ELSE <<>>

\* the result of lines 322-339: an exception in the scan skips the generator
keep_maps(scanned, generated) ==
    IF scanned.e # "" THEN [e |-> scanned.e, v |-> Maps(scanned.v, <<>>)]
    ELSE [e |-> generated.e, v |-> Maps(scanned.v, generated.v)]

\* lines 315-342: the exception that escaped and the two maps at that point
load_dino(disk, selected_dino_folder) ==
    IF selected_dino_folder = <<>> \/ selected_dino_folder = Chars("No Dinosaurs found")
    THEN Ret(Maps(<<>>, <<>>))
    ELSE IF ~HasDino(disk, selected_dino_folder) THEN Ret(Maps(<<>>, <<>>))
    ELSE IF ~DinoOf(disk, selected_dino_folder).attributes THEN Ret(Maps(<<>>, <<>>))
    ELSE keep_maps(scan_files(disk,
                              glob_att(AttributesPath(selected_dino_folder),
                                       DinoOf(disk, selected_dino_folder).att),
                              selected_dino_folder,
                              with_balance(disk, selected_dino_folder)),
                   generate_virtual_attack_files(disk, selected_dino_folder, <<>>))

MenuOf(names) ==
    IF names = <<>> THEN <<[label |-> Chars("No files found"), command |-> "none"]>>
    ELSE [i \in 1..Len(names) |-> [label |-> names[i], command |-> "set"]]

\* lines 344-356 on the sorted display names
show_names(names) ==
    /\ json_menu' = MenuOf(names)
    /\ json_file_var' = (IF names = <<>> THEN Chars("No files found") ELSE names[1])
    /\ plot_button' =
        [enable_plot_button(IF names = <<>> THEN Chars("No files found") ELSE names[1],
                            plot_button)
            EXCEPT !.state = IF names = <<>> THEN "disabled" ELSE "normal"]

\* the state after update_json_files ended with the result ld of the rebuild
apply_load(ld, dino) ==
    /\ folder_var' = dino
    /\ json_files_paths' = ld.v.json_files_paths
    /\ virtual_files_data' = ld.v.virtual_files_data
    /\ exc' = ld.e
    /\ shown' = NoPlot
    /\ IF ld.e # ""
       THEN UNCHANGED <<json_menu, json_file_var, plot_button>>
       ELSE show_names(sorted(DictKeys(ld.v.json_files_paths)
                                \o DictKeys(ld.v.virtual_files_data)))

\* update_json_files, run by the write trace of folder_var
update_json_files(disk, dino) == apply_load(load_dino(disk, dino), dino)

first_folder(folders) == IF folders = <<>> THEN Chars("No Dinosaurs found") ELSE folders[1]

\* auto_locate_jsons_folder and update_folder_menu: the first creature is selected
auto_locate(disk) ==
    update_json_files(disk, first_folder(sorted(SetToSeq({Chars(c) : c \in DOMAIN disk}))))

\* lines 480-482: the program is started on a JSONs folder
Boot(disks) ==
    /\ pc = "off"
    /\ \E disk \in disks : fs' = disk /\ auto_locate(disk)
    /\ pc' = "ui"
    /\ UNCHANGED <<arg, out>>

\* toggle_path_entry with the override unchecked
auto_locate_jsons_folder ==
    /\ pc = "ui"
    /\ auto_locate(fs)
    /\ UNCHANGED <<fs, arg, out, pc>>

\* a creature is picked in the creature dropdown
select_folder ==
    /\ pc = "ui"
    /\ \E c \in DOMAIN fs : update_json_files(fs, Chars(c))
    /\ UNCHANGED <<fs, arg, out, pc>>

\* an attribute is picked in the attribute dropdown
select_json ==
    /\ pc = "ui"
    /\ \E i \in 1..Len(json_menu) :
        /\ json_menu[i].command = "set"
        /\ json_file_var' = json_menu[i].label
        /\ plot_button' = enable_plot_button(json_menu[i].label, plot_button)
    /\ shown' = NoPlot
    /\ exc' = ""
    /\ UNCHANGED <<fs, folder_var, json_files_paths, virtual_files_data, json_menu, arg, out, pc>>

\* the effect of a button command that ended with result r
pressed(r) == shown' = r.v /\ exc' = r.e

\* the button is pressed while its command is plot_selected_file
press_plot ==
    /\ pc = "ui"
    /\ plot_button.state = "normal"
    /\ plot_button.command = "plot_selected_file"
    /\ pressed(plot_selected_file(fs, json_file_var, json_files_paths, virtual_files_data))
    /\ UNCHANGED <<fs, folder_var, json_files_paths, virtual_files_data, json_menu,
                   json_file_var, plot_button, arg, out, pc>>

\* the button is pressed while its command is show_selected_data_table
press_show_table ==
    /\ pc = "ui"
    /\ plot_button.state = "normal"
    /\ plot_button.command = "show_selected_data_table"
    /\ pressed(show_selected_data_table(fs, json_file_var, json_files_paths))
    /\ UNCHANGED <<fs, folder_var, json_files_paths, virtual_files_data, json_menu,
                   json_file_var, plot_button, arg, out, pc>>

Handlers == auto_locate_jsons_folder \/ select_folder \/ select_json
                \/ press_plot \/ press_show_table

-----------------------------------------------------------------------------
(* Bounded inputs *)

\* longest curve drawn for an attribute file
MaxKeys == 4

Times == {Num(0), Rat(1, 2), Num(1)}
Values == {Num(0), Num(1), Num(2), Num(4)}

Keyframe(t, v) == Obj(<<<<"Time", t>>, <<"Value", v>>>>)
Keyframes == {Keyframe(t, v) : t \in Times, v \in Values}

Curve(keys) == Obj(<<<<"Keys", Arr(keys)>>>>)
ShapeA(curves) == Arr(<<Obj(<<<<"FloatCurves", Arr(curves)>>>>)>>)
ShapeB(curve) == Arr(<<Obj(<<<<"Properties", Obj(<<<<"FloatCurve", curve>>>>)>>>>)>>)

\* the spec's examples: slopes 2 and 6; constant slope 2; flat
Bent == <<Keyframe(Num(0), Num(0)), Keyframe(Rat(1, 2), Num(1)), Keyframe(Num(1), Num(4))>>
Straight == <<Keyframe(Num(0), Num(0)), Keyframe(Rat(1, 2), Num(1)), Keyframe(Num(1), Num(2))>>
Flat == <<Keyframe(Num(0), Num(2)), Keyframe(Rat(1, 2), Num(2)), Keyframe(Num(1), Num(2))>>

\* keyframes that are not a (Time, Value) pair of numbers
BadKeyframes ==
    { Obj(<<<<"Value", Num(1)>>>>), Obj(<<<<"Time", Num(1)>>>>),
      Keyframe(Null, Num(1)), Keyframe(Num(1), Null), Keyframe(Num(1), Str("x")),
      Null, Num(1), Obj(<<>>) }

\* a curve with one keyframe replaced by a bad one
Spoiled(keys, p, bad) == [i \in 1..Len(keys) |-> IF i = p THEN bad ELSE keys[i]]

SpoiledCurves ==
    {Curve(Spoiled(ks \o <<Keyframe(Num(1), Num(4))>>, p, bad)) :
        ks \in {Bent, Straight, Flat}, p \in 1..4, bad \in BadKeyframes}

\* curve objects that are not a curve
BadCurves ==
    { Null, Num(5), Obj(<<>>), Obj(<<<<"Keys", Null>>>>), Obj(<<<<"Keys", Num(3)>>>>),
      Obj(<<<<"Keys", Obj(<<>>)>>>>) } \cup SpoiledCurves

\* records (element 0 of the file) with an unusable first curve
BadRecords ==
    { Null, Num(5), Str("x"), Arr(<<>>), Arr(<<Num(1)>>), Obj(<<>>),
      Obj(<<<<"FloatCurves", Null>>>>), Obj(<<<<"FloatCurves", Arr(<<>>)>>>>),
      Obj(<<<<"FloatCurves", Num(5)>>>>), Obj(<<<<"FloatCurves", Obj(<<>>)>>>>),
      Obj(<<<<"Properties", Null>>>>), Obj(<<<<"Properties", Num(5)>>>>),
      Obj(<<<<"Properties", Obj(<<>>)>>>>),
      Obj(<<<<"FloatCurves", Null>>, <<"Properties", Num(5)>>>>) }
        \cup {Obj(<<<<"FloatCurves", Arr(<<c>>)>>>>) : c \in BadCurves}
        \cup {Obj(<<<<"FloatCurves", Arr(<<c, Curve(Bent)>>)>>>>) : c \in BadCurves}
        \cup {Obj(<<<<"Properties", Obj(<<<<"FloatCurve", c>>>>)>>>>) : c \in BadCurves}

\* records carrying both members
BothRecords ==
    {Obj(<<<<"FloatCurves", a>>, <<"Properties", Obj(<<<<"FloatCurve", Curve(b)>>>>)>>>>) :
        a \in {Null, Arr(<<>>), Arr(<<Curve(Straight)>>), Arr(<<Curve(Bent)>>)},
        b \in {Bent, Straight}}

\* file contents that are not an array holding a record
BadData ==
    { Null, Num(0), Num(5), Str(""), Str("x"), Arr(<<>>), Obj(<<>>),
      Obj(<<<<"FloatCurves", Arr(<<Curve(Bent)>>)>>>>) }
        \cup {Arr(<<r>>) : r \in BadRecords}

\* a disk holding one creature with one attribute file
OneFileDisk(name, file) ==
    [c \in {"Rex"} |-> [attributes |-> TRUE, balance |-> Missing,
                        att |-> <<[name |-> name, file |-> file]>>]]

ArmorPath == Join(AttributesPath(Chars("Rex")), Chars("ATT_Rex_Armor.json"))

-----------------------------------------------------------------------------
(* State before the program is started, with the field values that        *)
(* JSONPlotterUI.__init__ assigns in lines 225-259                        *)

Init ==
    /\ fs = [c \in {} |-> Missing]
    /\ folder_var = <<>>
    /\ json_files_paths = <<>>
    /\ virtual_files_data = <<>>
    /\ json_menu = <<[label |-> Chars("No files found"), command |-> "set"]>>
    /\ json_file_var = <<>>
    /\ plot_button = [state |-> "disabled", command |-> "plot_selected_file"]
    /\ shown = NoPlot
    /\ exc = ""
    /\ arg = Null
    /\ out = Ret(Null)
    /\ pc = "off"

-----------------------------------------------------------------------------
(* The classifier and the shape resolution applied to one file *)

\* is_linear_or_flat on a file holding j
Classify(j) ==
    /\ arg' = j
    /\ out' = is_linear_or_flat(OneFileDisk("ATT_Rex_Armor.json", Json(j)), ArmorPath)
    /\ pc' = "classified"
    /\ UNCHANGED uiVars

\* the files holding the curve ks first; a second curve goes with the shorter ones
FilesWith(ks) ==
    {ShapeA(<<Curve(ks)>>), ShapeB(Curve(ks))}
        \cup (IF Len(ks) < MaxKeys
              THEN {ShapeA(<<Curve(ks), Curve(Bent)>>), ShapeA(<<Curve(ks), Curve(Flat)>>)}
              ELSE {})

ClassifyWellFormed ==
    /\ pc = "off"
    /\ \E k \in 0..MaxKeys : \E ks \in [1..k -> Keyframes] :
        \E j \in FilesWith(ks) : Classify(j)

ClassifyOther ==
    /\ pc = "off"
    /\ \E j \in BadData \cup {Arr(<<r>>) : r \in BothRecords} : Classify(j)

\* the three places that resolve the curves of a record
Normalize ==
    /\ pc = "off"
    /\ \E k \in 0..2 : \E ks \in [1..k -> {Bent[1], Bent[2], Bent[3]}] :
        \E rec \in BadRecords \cup BothRecords
                    \cup {ShapeA(<<Curve(ks)>>).a[1], ShapeB(Curve(ks)).a[1],
                          ShapeA(<<Curve(ks), Curve(Bent)>>).a[1]} :
            /\ arg' = rec
            /\ out' = [classifier |-> get_or_float_curves(rec),
                       plot |-> get_or_float_curves(rec),
                       generator |-> resolve_ap_curves(rec)]
    /\ pc' = "normalized"
    /\ UNCHANGED uiVars

NextClassify == ClassifyWellFormed \/ ClassifyOther \/ Normalize

SpecClassify == Init /\ [][NextClassify]_vars
-----------------------------------------------------------------------------
(* Disks for the virtual curve generator *)

\* most rows drawn for a balance table
MaxRows == 2

RowNames == {"Damage.Bite", "Damage.TailSlam", "Damage.Alt.Bite", "Other.X"}

Row(p) == Obj(<<<<"AttributePercentageValues", p>>>>)

\* percentages 0, 0.5 and null, and a row without the member
RowValues == {Row(Num(0)), Row(Rat(1, 2)), Row(Num(2)), Row(Null)}

Injective(f) == \A i, j \in DOMAIN f : i # j => f[i] # f[j]

RowSeqs ==
    UNION {{[i \in 1..k |-> <<ns[i], vs[i]>>] :
                ns \in {f \in [1..k -> RowNames] : Injective(f)}, vs \in [1..k -> RowValues]} :
           k \in 0..MaxRows}

Balance(rows) == Json(Arr(<<Obj(<<<<"Rows", Obj(rows)>>>>)>>))

BadBalances ==
    { Missing, Invalid, Json(Arr(<<Obj(<<>>)>>)), Json(Arr(<<Obj(<<<<"Rows", Null>>>>)>>)),
      Json(Obj(<<<<"Rows", Obj(<<>>)>>>>)), Json(Num(5)),
      Balance(<<<<"Damage.Bite", Row(Rat(1, 2))>>, <<"Damage.TailSlam", Obj(<<>>)>>>>),
      Balance(<<<<"Other.X", Obj(<<>>)>>, <<"Damage.Bite", Row(Rat(1, 2))>>>>),
      Balance(<<<<"Damage.Bite", Null>>>>) }

\* the spec's attack-power curve (0,10), (0.5,20), (1,30)
Power == <<Keyframe(Num(0), Num(10)), Keyframe(Rat(1, 2), Num(20)), Keyframe(Num(1), Num(30))>>

ApCurves ==
    { Curve(Power),
      Curve(<<Keyframe(Num(-1), Num(3)), Keyframe(Num(1), Num(4))>>),
      Curve(<<>>),
      Obj(<<>>),
      Curve(<<Obj(<<<<"Time", Num(0)>>>>), Keyframe(Num(1), Num(4))>>),
      Curve(<<Keyframe(Rat(1, 2), Num(4)), Obj(<<<<"Time", Num(1)>>>>)>>),
      Curve(<<Keyframe(Rat(1, 2), Num(4)), Obj(<<<<"Value", Num(1)>>>>)>>),
      Curve(<<Keyframe(Rat(1, 2), Null)>>) }

ApRecords ==
    {ShapeA(<<a>>) : a \in ApCurves}
        \cup {ShapeB(a) : a \in ApCurves}
        \cup {ShapeA(<<Curve(Power), b>>) : b \in ApCurves}
        \cup {ShapeA(<<Curve(Power), Curve(Power), c>>) : c \in {Curve(Power), Obj(<<>>)}}
        \cup {Arr(<<r>>) : r \in
                { Obj(<<>>), Num(5), Obj(<<<<"FloatCurves", Null>>>>),
                  Obj(<<<<"FloatCurves", Arr(<<>>)>>>>), Obj(<<<<"Properties", Null>>>>),
                  Obj(<<<<"FloatCurves", Arr(<<>>)>>,
                        <<"Properties", Obj(<<<<"FloatCurve", Curve(Power)>>>>)>>>>) }}
        \cup {Obj(<<<<"FloatCurves", Arr(<<Curve(Power)>>)>>>>), Num(5)}

ApFiles == {Missing, Invalid} \cup {Json(j) : j \in ApRecords}

GenDisks ==
    {[c \in {"Rex"} |-> [attributes |-> TRUE, balance |-> b,
                          att |-> <<[name |-> "ATT_Rex_AttackPower.json", file |-> f]>>]] :
        b \in {Balance(rows) : rows \in RowSeqs} \cup BadBalances, f \in ApFiles}

BootGen == Boot(GenDisks)

NextGen == BootGen \/ Handlers

SpecGen == Init /\ [][NextGen]_vars

-----------------------------------------------------------------------------
(* Disks for the stored-curve plot path *)

\* non-trivial curves ending before and after time 1 (Bent ends at 1)
Early == <<Keyframe(Num(0), Num(0)), Keyframe(Rat(1, 4), Num(1)), Keyframe(Rat(1, 2), Num(4))>>
Late == <<Keyframe(Num(0), Num(0)), Keyframe(Rat(1, 2), Num(1)), Keyframe(Rat(3, 2), Num(4))>>

\* the spec's example (0,2), (0.8,5)
Short == <<Keyframe(Num(0), Num(2)), Keyframe(Rat(4, 5), Num(5))>>

FirstCurves == {Curve(Early), Curve(Bent), Curve(Late)}

SecondCurves ==
    { Curve(Short), Curve(<<>>), Curve(Flat), Curve(Early), Curve(Late),
      Curve(<<Keyframe(Num(0), Num(100))>>),
      Obj(<<>>), Null,
      Curve(<<Keyframe(Rat(1, 2), Null)>>),
      Curve(<<Keyframe(Null, Num(1))>>),
      Curve(<<Obj(<<<<"Time", Num(1)>>>>)>>) }

PlotRecords ==
    {ShapeA(<<f>>) : f \in FirstCurves}
        \cup {ShapeB(f) : f \in FirstCurves}
        \cup {ShapeA(<<f, s>>) : f \in FirstCurves, s \in SecondCurves}
        \cup {ShapeA(<<f, Curve(Short), Curve(Early)>>) : f \in FirstCurves}

PlotNames ==
    { "ATT_Rex_Weight.json", "ATT_Rex_Scale.json", "ATT_Rex_MaxSpeed.json",
      "ATT_Rex_WeightSpeed.json", "ATT_Rex_Armor.json" }

GoodBalance == Balance(<<<<"Damage.Bite", Row(Rat(1, 2))>>, <<"Other.X", Row(Num(1))>>>>)

PlotDisks ==
    {[c \in {"Rex"} |-> [attributes |-> TRUE, balance |-> b,
                          att |-> <<[name |-> n, file |-> Json(j)]>>]] :
        b \in {Missing, GoodBalance}, n \in PlotNames, j \in PlotRecords}

BootPlot == Boot(PlotDisks)

NextPlot == BootPlot \/ Handlers

SpecPlot == Init /\ [][NextPlot]_vars

-----------------------------------------------------------------------------
(* Disks with two creatures *)

\* most attribute files drawn for the first creature
MaxFiles == 2

RexNames ==
    {"ATT_Rex_Weight.json", "ATT_Rex_MaxSpeed.json", "ATT_Rex_AttackPower.json"}

\* listed, hidden, unplottable second curve, shape B, and unusable contents
MainContents ==
    { Json(ShapeA(<<Curve(Bent)>>)),
      Json(ShapeA(<<Curve(Straight), Curve(Bent)>>)),
      Json(ShapeA(<<Curve(Bent), Obj(<<>>)>>)),
      Json(ShapeB(Curve(Power))),
      Json(Arr(<<Num(5)>>)),
      Json(Arr(<<Obj(<<>>)>>)),
      Invalid }

AttSeqs ==
    UNION {{[i \in 1..k |-> [name |-> ns[i], file |-> cs[i]]] :
                ns \in {f \in [1..k -> RexNames] : Injective(f)},
                cs \in [1..k -> MainContents]} :
           k \in 0..MaxFiles}

RexDirs ==
    {[attributes |-> TRUE, balance |-> b, att |-> a] :
        b \in {Missing, GoodBalance, Json(Arr(<<Obj(<<>>)>>))}, a \in AttSeqs}
        \cup {[attributes |-> FALSE, balance |-> GoodBalance, att |-> <<>>]}

UtahDirs ==
    { [attributes |-> FALSE, balance |-> Missing, att |-> <<>>],
      [attributes |-> TRUE, balance |-> Missing, att |-> <<>>],
      [attributes |-> TRUE, balance |-> Missing,
       att |-> <<[name |-> "ATT_Utah_Weight.json", file |-> Json(ShapeA(<<Curve(Bent)>>))]>>],
      [attributes |-> TRUE, balance |-> GoodBalance,
       att |-> <<[name |-> "ATT_Utah_AttackPower.json", file |-> Json(ShapeA(<<Curve(Power)>>))]>>],
      [attributes |-> TRUE, balance |-> GoodBalance,
       att |-> <<[name |-> "ATT_Utah_Stamina.json", file |-> Json(Arr(<<Num(5)>>))]>>] }

MainDisks ==
    {[c \in {"Rex", "Utah"} |-> IF c = "Rex" THEN r ELSE u] : r \in RexDirs, u \in UtahDirs}
        \cup {[c \in {"Rex"} |-> r] : r \in RexDirs}
        \cup {[c \in {} |-> Missing]}

BootMain == Boot(MainDisks)

Next == BootMain \/ Handlers

Spec == Init /\ [][Next]_vars
-----------------------------------------------------------------------------
(* Statements about the classifier and the shape resolution *)

\* the curves of a record as the data model describes them: shape A if
\* FloatCurves is a non-empty list, otherwise shape B if present
RecordCurves(rec) ==
    IF HasKey(rec, "FloatCurves") /\ Member(rec, "FloatCurves").t = "list"
            /\ Member(rec, "FloatCurves").a # <<>>
    THEN Member(rec, "FloatCurves").a
    ELSE IF (HasKey(rec, "FloatCurves") =>
                    Member(rec, "FloatCurves") \in {Null, Arr(<<>>)})
            /\ HasKey(rec, "Properties") /\ Member(rec, "Properties").t = "obj"
            /\ HasKey(Member(rec, "Properties"), "FloatCurve")
    THEN <<Member(Member(rec, "Properties"), "FloatCurve")>>
    ELSE <<>>

IsKeyframe(k) ==
    /\ k.t = "obj"
    /\ HasKey(k, "Time") /\ IsNum(Member(k, "Time"))
    /\ HasKey(k, "Value") /\ IsNum(Member(k, "Value"))

IsCurve(c) ==
    /\ c.t = "obj" /\ HasKey(c, "Keys") /\ Member(c, "Keys").t = "list"
    /\ \A i \in 1..Len(Member(c, "Keys").a) : IsKeyframe(Member(c, "Keys").a[i])

HasWellFormedFirstCurve(j) ==
    /\ j.t = "list" /\ j.a # <<>> /\ j.a[1].t = "obj"
    /\ RecordCurves(j.a[1]) # <<>>
    /\ IsCurve(RecordCurves(j.a[1])[1])

FirstKeys(j) == Member(RecordCurves(j.a[1])[1], "Keys").a

TimeOf(k) == Member(k, "Time")
ValueOf(k) == Member(k, "Value")

\* slope of the pair (i-1, i), +infinity for equal times
PairSlope(keys, i) ==
    IF TimeOf(keys[i]) = TimeOf(keys[i - 1]) THEN Inf
    ELSE Fin(RDiv(RSub(ValueOf(keys[i]), ValueOf(keys[i - 1])),
                  RSub(TimeOf(keys[i]), TimeOf(keys[i - 1]))))

\* two slopes differ by at most 1e-9
WithinTolerance(a, b) ==
    \/ a.inf /\ b.inf
    \/ /\ ~a.inf /\ ~b.inf
       /\ RAbs(RSub(a.q, b.q)).n <= RAbs(RSub(a.q, b.q)).d \div TolDenom

TrivialByRule(keys) ==
    \/ Len(keys) <= 2
    \/ \A i \in 1..Len(keys) : ValueOf(keys[i]) = ValueOf(keys[1])
    \/ \A i \in 3..Len(keys) : WithinTolerance(PairSlope(keys, i), PairSlope(keys, 2))

\* a call that returned b
Returns(r, b) == r.e = "" /\ r.v = b

\* C1: on a well-formed first curve is_linear_or_flat returns true exactly
\* when the curve has at most 2 keyframes, or is flat, or every later pair
\* slope is within 1e-9 of the slope of pair (0,1), equal times giving +infinity
C1_ClassifierRule ==
    (pc = "classified" /\ HasWellFormedFirstCurve(arg))
        => Returns(out, TrivialByRule(FirstKeys(arg)))

C1_Witness ==
    /\ pc = "classified"
    /\ arg = ShapeA(<<Curve(Bent)>>)
    /\ Returns(out, FALSE)

\* C6: whenever the keys of the first curve cannot be extracted from the
\* loaded JSON value, is_linear_or_flat returns true and raises nothing
C6_FailSafe ==
    (pc = "classified" /\ ~HasWellFormedFirstCurve(arg)) => Returns(out, TRUE)

Usable(r) == r.e = "" /\ r.v.t = "list" /\ r.v.a # <<>> /\ r.v.a[1].t = "obj"

\* C7: the classifier, the stored-curve plot path and the generator resolve
\* every record to the same curve set
C7_SameCurveSet ==
    pc = "normalized" =>
        /\ out.classifier = out.plot
        /\ (Usable(out.classifier) \/ Usable(out.generator))
                => out.classifier = out.generator

-----------------------------------------------------------------------------
(* Statements about the virtual curve generator *)

\* the two files the generator reads for the selected creature
BalanceJson == LoadOf(FileAt(fs, BalancePath(folder_var)))
AttackJson == LoadOf(FileAt(fs, AttackPowerPath(folder_var)))

HasRecord(j) == j.t = "list" /\ j.a # <<>> /\ j.a[1].t = "obj"

\* the percentage table: the members of Rows in file order
RowsOf(j) ==
    IF HasRecord(j) /\ HasKey(j.a[1], "Rows") /\ Member(j.a[1], "Rows").t = "obj"
    THEN Member(j.a[1], "Rows").o
    ELSE <<>>

HasPercentage(item) ==
    item[2].t = "obj" /\ HasKey(item[2], "AttributePercentageValues")

PercentageOf(item) == Member(item[2], "AttributePercentageValues")

IsDamageKey(k) == StartsWith(Chars(k), Chars("Damage."))

\* a key that starts with "Damage." and has a non-zero percentage
Qualifies(item) ==
    IsDamageKey(item[1]) /\ HasPercentage(item) /\ PercentageOf(item) # Num(0)

QualifyingRows == {r \in 1..Len(RowsOf(BalanceJson)) : Qualifies(RowsOf(BalanceJson)[r])}

\* the attack-power curves: FloatCurves when the record has it, else the single FloatCurve
HasShape(rec) ==
    \/ HasKey(rec, "FloatCurves")
    \/ /\ HasKey(rec, "Properties") /\ Member(rec, "Properties").t = "obj"
       /\ HasKey(Member(rec, "Properties"), "FloatCurve")

AttackCurves(j) ==
    IF ~HasRecord(j) \/ ~HasShape(j.a[1]) THEN <<>>
    ELSE IF HasKey(j.a[1], "FloatCurves") THEN Member(j.a[1], "FloatCurves").a
    ELSE <<Member(Member(j.a[1], "Properties"), "FloatCurve")>>

FirstTwo(s) == SubSeq(s, 1, IF Len(s) < 2 THEN Len(s) ELSE 2)

\* the keyframes with Time > 0, in order, each value multiplied by pct
RECURSIVE ExpectedSeries(_, _)
ExpectedSeries(keys, pct) ==
    IF keys = <<>> THEN [Time |-> <<>>, Values |-> <<>>]
    ELSE LET rest == ExpectedSeries(Tail(keys), pct)
         IN  IF RLess(Num(0), TimeOf(Head(keys)))
             THEN [Time |-> <<TimeOf(Head(keys))>> \o rest.Time,
                   Values |-> <<RMul(ValueOf(Head(keys)), pct)>> \o rest.Values]
             ELSE rest

ExpectedCurves(j, pct) ==
    [i \in 1..Len(FirstTwo(AttackCurves(j))) |->
        ExpectedSeries(Member(AttackCurves(j)[i], "Keys").a, pct)]

\* C2: every virtual entry comes from a key that starts with "Damage." and has
\* a non-zero percentage, and holds, for each of the first two attack-power
\* curves only, exactly the keyframes with Time > 0 in order, each value
\* being the source value times that key's percentage
C2_VirtualCurves ==
    pc = "ui" =>
        \A i \in 1..Len(virtual_files_data) :
            \E r \in QualifyingRows :
                /\ virtual_files_data[i][1] = display_name(RowsOf(BalanceJson)[r][1])
                /\ virtual_files_data[i][2].curves
                        = ExpectedCurves(AttackJson, PercentageOf(RowsOf(BalanceJson)[r]))

\* the spec's example: (0,10),(0.5,20),(1,30) at 0.5 gives (0.5,10),(1,15)
C2_Witness ==
    /\ pc = "ui"
    /\ \E i \in 1..Len(virtual_files_data) :
        /\ virtual_files_data[i][1] = Chars("Bite Attack")
        /\ virtual_files_data[i][2].curves
                = <<[Time |-> <<Rat(1, 2), Num(1)>>, Values |-> <<Num(10), Num(15)>>]>>

\* the prefix "Damage." stripped
StripPrefix(k) == SubSeq(Chars(k), Len(Chars("Damage.")) + 1, Len(Chars(k)))

\* a space before every uppercase letter but the first character
SpaceInternal(s) ==
    IF s = <<>> THEN <<>> ELSE <<Head(s)>> \o SpaceUpper(Tail(s))

NameByRule(k) == SpaceInternal(StripPrefix(k)) \o Chars(" Attack")

\* both files were loaded and the attack-power record has a curve shape
GenerationRan ==
    /\ pc = "ui" /\ exc = ""
    /\ Truthy(BalanceJson) /\ HasRecord(AttackJson) /\ HasShape(AttackJson.a[1])

\* C3: generation produces one entry per qualifying key, named by the key
\* with its prefix stripped, internal capitals spaced and " Attack" appended
C3_OnePerKey ==
    GenerationRan =>
        /\ Len(virtual_files_data) = Cardinality(QualifyingRows)
        /\ \A r \in QualifyingRows :
            DictHas(virtual_files_data, NameByRule(RowsOf(BalanceJson)[r][1]))

\* what the generator needs of its two inputs
BalanceWellFormed ==
    /\ HasRecord(BalanceJson)
    /\ HasKey(BalanceJson.a[1], "Rows") /\ Member(BalanceJson.a[1], "Rows").t = "obj"
    /\ \A r \in 1..Len(RowsOf(BalanceJson)) :
        IsDamageKey(RowsOf(BalanceJson)[r][1]) =>
            /\ HasPercentage(RowsOf(BalanceJson)[r])
            /\ IsNum(PercentageOf(RowsOf(BalanceJson)[r]))

AttackWellFormed ==
    /\ HasRecord(AttackJson) /\ HasShape(AttackJson.a[1])
    /\ (HasKey(AttackJson.a[1], "FloatCurves")
            => Member(AttackJson.a[1], "FloatCurves").t = "list")
    /\ \A i \in 1..Len(FirstTwo(AttackCurves(AttackJson))) : IsCurve(AttackCurves(AttackJson)[i])

\* C4: generation is all-or-nothing: with a missing or malformed input no
\* entry is left, and otherwise the entries are there for all qualifying keys
C4_AllOrNothing ==
    pc = "ui" =>
        IF BalanceWellFormed /\ AttackWellFormed
        THEN \/ virtual_files_data = <<>>
             \/ \A r \in QualifyingRows :
                    DictHas(virtual_files_data, display_name(RowsOf(BalanceJson)[r][1]))
        ELSE virtual_files_data = <<>>

-----------------------------------------------------------------------------
(* Statements about the session *)

\* C5: update_json_files, generate_virtual_attack_files and plot_selected_file
\* never let an exception escape, whatever the creature's files hold
C5_NoEscape == pc = "ui" => exc = ""

-----------------------------------------------------------------------------
(* Statements about the stored-curve plot path *)

\* a plot of a stored attribute is on display
StoredPlot ==
    /\ pc = "ui" /\ shown.kind = "plot"
    /\ ~DictHas(virtual_files_data, json_file_var)
    /\ DictHas(json_files_paths, json_file_var)

SelectedRecord == LoadOf(FileAt(fs, DictAt(json_files_paths, json_file_var))).a[1]

SelectedCurves == FirstTwo(RecordCurves(SelectedRecord))

KeysOf(c) == Member(c, "Keys").a
RawTimes(c) == [k \in 1..Len(KeysOf(c)) |-> TimeOf(KeysOf(c)[k])]
RawValues(c) == [k \in 1..Len(KeysOf(c)) |-> ValueOf(KeysOf(c)[k])]

NamedWeightOrScale == Lower(json_file_var) \in {Chars("weight"), Chars("scale")}

EndsBeforeOne(ts) == ts # <<>> /\ IsNum(ts[Len(ts)]) /\ RLess(ts[Len(ts)], Num(1))

\* C8: for a name equal to "weight" or "scale" in any case, each of the first
\* two curves ending before time 1.0 gets exactly one keyframe appended at
\* 1.0 with the value of its last keyframe; for every other name, and for
\* curves ending at or after 1.0 or without keyframes, nothing is added or removed
C8_BoundaryExtension ==
    StoredPlot =>
        /\ Len(shown.times) = Len(SelectedCurves)
        /\ Len(shown.values) = Len(SelectedCurves)
        /\ \A i \in 1..Len(SelectedCurves) :
            IF NamedWeightOrScale /\ EndsBeforeOne(RawTimes(SelectedCurves[i]))
            THEN /\ shown.times[i] = Append(RawTimes(SelectedCurves[i]), Num(1))
                 /\ shown.values[i]
                        = Append(RawValues(SelectedCurves[i]),
                                 RawValues(SelectedCurves[i])[Len(KeysOf(SelectedCurves[i]))])
            ELSE /\ shown.times[i] = RawTimes(SelectedCurves[i])
                 /\ Len(shown.values[i]) = Len(KeysOf(SelectedCurves[i]))

\* the spec's example: "Weight" with (0,2),(0.8,5) shows (0,2),(0.8,5),(1.0,5)
C8_Witness ==
    /\ StoredPlot
    /\ json_file_var = Chars("Weight")
    /\ \E i \in 1..Len(shown.times) :
        /\ shown.times[i] = <<Num(0), Rat(4, 5), Num(1)>>
        /\ shown.values[i] = <<Num(2), Num(5), Num(5)>>

HasWord(w) == Contains(Lower(json_file_var), Chars(w))

\* every plotted value is the stored value times f, an appended keyframe
\* being the last stored value times f
ScaledBy(f) ==
    \A i \in 1..Len(shown.values) : \A k \in 1..Len(shown.values[i]) :
        shown.values[i][k]
            = RMul(RawValues(SelectedCurves[i])
                        [IF k > Len(KeysOf(SelectedCurves[i]))
                         THEN Len(KeysOf(SelectedCurves[i])) ELSE k], f)

\* C9 as stated: a name containing "speed" gives the km/h label and values
\* times 0.036, a name containing "weight" the kg label and unscaled values,
\* every other name the label "Value" and unscaled values
C9_UnitLabel ==
    StoredPlot =>
        /\ HasWord("speed")
                => shown.y_label = Chars("Value (km/h)") /\ ScaledBy(Rat(36, 1000))
        /\ HasWord("weight")
                => shown.y_label = Chars("Value (kg)") /\ ScaledBy(Num(1))
        /\ (~HasWord("speed") /\ ~HasWord("weight"))
                => shown.y_label = Chars("Value") /\ ScaledBy(Num(1))

\* C9: a name containing "speed" gives the km/h label and values times
\* 0.036; a name containing "weight" and not "speed" gives the kg label and
\* unscaled values; every other name the label "Value" and unscaled values
C9_UnitLabelSpeedFirst ==
    StoredPlot =>
        /\ HasWord("speed")
                => shown.y_label = Chars("Value (km/h)") /\ ScaledBy(Rat(36, 1000))
        /\ (HasWord("weight") /\ ~HasWord("speed"))
                => shown.y_label = Chars("Value (kg)") /\ ScaledBy(Num(1))
        /\ (~HasWord("speed") /\ ~HasWord("weight"))
                => shown.y_label = Chars("Value") /\ ScaledBy(Num(1))

\* the spec's example: a speed attribute with value 100 shows 3.6 in km/h
C9_Witness ==
    /\ StoredPlot
    /\ json_file_var = Chars("Max Speed")
    /\ shown.y_label = Chars("Value (km/h)")
    /\ \E i \in 1..Len(shown.values) : shown.values[i] = <<Rat(18, 5)>>

-----------------------------------------------------------------------------
(* Statements about the visibility filter *)

\* the record has one of the two shapes and is_linear_or_flat returns false
FileQualifies(f) ==
    /\ HasRecord(LoadOf(f))
    /\ HasShape(LoadOf(f).a[1])
    /\ Returns(linear_or_flat_of(LoadOf(f)), FALSE)

IsListed(name) ==
    \E k \in 1..Len(json_files_paths) :
        json_files_paths[k][2] = Join(AttributesPath(folder_var), Chars(name))

\* C10: after update_json_files an ATT_ file of the creature is in
\* json_files_paths exactly when its record has one of the two curve shapes
\* and its first curve is non-trivial; the second curve has no influence
C10_VisibilityFilter ==
    (pc = "ui" /\ HasDino(fs, folder_var) /\ DinoOf(fs, folder_var).attributes) =>
        \A i \in 1..Len(DinoOf(fs, folder_var).att) :
            IsListed(DinoOf(fs, folder_var).att[i].name)
                <=> FileQualifies(DinoOf(fs, folder_var).att[i].file)

-----------------------------------------------------------------------------
(* Statements about the session maps *)

\* the selected creature has a directory with an Attributes folder
CreatureLoaded == HasDino(fs, folder_var) /\ DinoOf(fs, folder_var).attributes

\* path is the balance file or an attribute file of the selected creature
PathOfCurrent(path) ==
    \/ path = BalancePath(folder_var) /\ FileAt(fs, BalancePath(folder_var)).st # "missing"
    \/ \E i \in 1..Len(DinoOf(fs, folder_var).att) :
            path = Join(AttributesPath(folder_var), Chars(DinoOf(fs, folder_var).att[i].name))

\* C11: after any sequence of creature selections both maps hold only
\* entries built from the files of the selected creature; nothing of the
\* previous creature is left, also when the new creature has no Attributes
\* folder, no usable file, or its load ends part-way
C11_OnlyCurrentCreature ==
    pc = "ui" =>
        IF CreatureLoaded
        THEN /\ \A k \in 1..Len(json_files_paths) :
                    /\ PathOfCurrent(json_files_paths[k][2])
                    /\ json_files_paths[k][1]
                            = format_file_name(json_files_paths[k][2], folder_var)
             /\ \A i \in 1..Len(virtual_files_data) :
                    \E r \in QualifyingRows :
                        /\ virtual_files_data[i][1] = display_name(RowsOf(BalanceJson)[r][1])
                        /\ virtual_files_data[i][2].title_name = virtual_files_data[i][1]
                        /\ virtual_files_data[i][2].curves
                                = ExpectedCurves(AttackJson,
                                                 PercentageOf(RowsOf(BalanceJson)[r]))
        ELSE json_files_paths = <<>> /\ virtual_files_data = <<>>

\* the second creature is selected and its load ended part-way, after the
\* first creature had every one of its files listed
C11_Witness ==
    /\ pc = "ui"
    /\ folder_var = Chars("Utah")
    /\ exc # ""
    /\ json_files_paths # <<>>
    /\ fs["Rex"].attributes /\ fs["Rex"].att # <<>>
    /\ \A i \in 1..Len(fs["Rex"].att) : FileQualifies(fs["Rex"].att[i].file)

-----------------------------------------------------------------------------
(* Statements about the attribute dropdown and the button *)

MapKeys == DictKeys(json_files_paths) \o DictKeys(virtual_files_data)

MenuLabels == [i \in 1..Len(json_menu) |-> json_menu[i].label]

Range(f) == {f[i] : i \in DOMAIN f}

\* C12: in every state reached by creature selections, attribute selections
\* and button presses the options of the attribute dropdown are exactly the
\* keys of json_files_paths and virtual_files_data (the one placeholder
\* "No files found" when both are empty), and the button is enabled exactly
\* when the selected attribute is one of those keys
C12_ViewMatchesMaps ==
    pc = "ui" =>
        /\ IF MapKeys = <<>>
           THEN MenuLabels = <<Chars("No files found")>>
           ELSE Len(MenuLabels) = Len(MapKeys) /\ Range(MenuLabels) = Range(MapKeys)
        /\ plot_button.state = "normal" <=> json_file_var \in Range(MapKeys)

====
